---- MODULE Spec2Model ----
(***************************************************************************)
(* Portfolio ledger of the micro-cap trader (src/App.tsx): the App         *)
(* component's portfolio / transactions state, the trade handler, the      *)
(* prediction request and its fold into the history, login / logout and    *)
(* the persistence effect.                                                 *)
(*                                                                         *)
(* Numbers.  Money amounts and prices are whole units, share counts are    *)
(* whole numbers (every call site passes Math.floor(..) or h.shares).      *)
(* avgCost is the one quotient the handler computes; it is kept as an      *)
(* exact fraction <<numerator, denominator>> in lowest terms.              *)
(* Transaction.id (Math.random) is read by no handler and is left out.     *)
(***************************************************************************)
EXTENDS Integers, Sequences, FiniteSets, TLC

\* ---------------------------------------------------------------- bounds
MaxTrades == 3             \* trades per run of Spec
MaxRequests == 1           \* prediction requests per run of Spec
MaxForecastTrades == 2     \* trades per run of ForecastSpec
MaxForecastRequests == 2   \* prediction requests per run of ForecastSpec
MaxSessionClock == 3       \* last clock tick at which SessionSpec trades
MaxSessionRequests == 1    \* prediction requests per run of SessionSpec
MaxSessionPending == 4     \* SessionSpec logs in with fewer requests unanswered
MaxConcurrentTrades == 1   \* trades per run of ConcurrentSpec
MaxConcurrentRequests == 2 \* prediction requests per run of ConcurrentSpec
MaxRawTrades == 2          \* trades per run of RawSpec
MaxAdvisoryPending == 2    \* AdvisorySpec starts a request with fewer unanswered
MaxAdvisoryTrades == 1     \* trades per run of AdvisorySpec
MaxAdvisoryRequests == 1   \* prediction requests per run of AdvisorySpec
MaxTwiceClock == 3         \* last clock tick at which TwiceSpec trades
MaxShortcutPending == 2    \* advisory calls awaited at once in ShortcutSpec
MaxShortcutTrades == 2     \* accepted trades per run of ShortcutSpec

\* ------------------------------------------------------ program constants
INITIAL_BALANCE == 100
PredictionDays == 7
DayLength == 2          \* clock ticks per day: toLocaleTimeString wraps

MockUserId == "google_user_123"
NoUser == "null"

Tickers == {"AAA", "BBB"}
\* the prices the gateway quotes for each ticker (stock.price, currentPrice)
Quotes(ticker) == IF ticker = "AAA" THEN {5, 7} ELSE {10, 12}
\* the share counts the buy and sell controls pass (whole and positive)
ShareCounts == {5, 10, 20}
TradeTypes == {"BUY", "SELL"}
\* price: number and shares: number as executeTrade declares them
RawPrices == {-5, 5, 10}
RawShareCounts == {-5, 0, 5, 10}

VARIABLES
    user,          \* App state `user` (its id), NoUser when null
    portfolio,     \* App state `portfolio`: [cash, holdings, history]
    transactions,  \* App state `transactions`, most recent first
    predicting,    \* App state `predicting`
    inflight,      \* prediction requests awaiting their response
    store,         \* localStorage: trader_user, portfolio_<id>, transactions_<id>
    clock,         \* wall clock read by new Date()
    issued,        \* number of prediction requests issued so far
    last,          \* the handler that ran last, its exit and its pre-state
    closed,        \* tickers fully sold and not bought again since
    folds,         \* prediction folds since the last trade, and the last payload
    advisory       \* the market, discovery, search and analysis state of App

vars == <<user, portfolio, transactions, predicting, inflight, store, clock,
          issued, last, closed, folds, advisory>>

\* ------------------------------------------------------------- arithmetic
RECURSIVE GCD(_, _)
GCD(a, b) == IF b = 0 THEN a ELSE GCD(b, a % b)

Abs(n) == IF n < 0 THEN -n ELSE n

\* the quotient n / d of two numbers, d > 0, in lowest terms
Quot(n, d) ==
    LET g == GCD(Abs(n), d)
    IN  IF g = 0 THEN <<0, 1>> ELSE <<n \div g, d \div g>>

\* numerator of k * q over q's denominator
TimesNum(k, q) == k * q[1]

\* ---------------------------------------------------------------- values
\* new Date().toLocaleTimeString(): the time of day, without the date
LocaleTimeString(now) == <<"time", now % DayLength>>

ActualSnapshot(now, value) ==
    [timestamp |-> LocaleTimeString(now), totalValue |-> value]

IsPrediction(h) == "isPrediction" \in DOMAIN h /\ h.isPrediction

\* the gateway's payload number k with n data points
Forecast(k, n) ==
    [i \in 1..n |-> [timestamp |-> <<"day", i>>, totalValue |-> 100 * k + i]]

\* the payloads the gateway can return to the request issued as number k
Forecasts(k) == {Forecast(k, PredictionDays)}

RECURSIVE SumValue(_)
SumValue(hs) ==
    IF hs = <<>> THEN 0
    ELSE hs[1].shares * hs[1].currentPrice + SumValue(Tail(hs))

totalValue(p) == p.cash + SumValue(p.holdings)

pnl(p) == totalValue(p) - INITIAL_BALANCE

\* ------------------------------------------------------------ executeTrade
\* newHoldings.findIndex(h => h.ticker === ticker); 0 stands for -1
findIndex(hs, ticker) ==
    IF \E i \in 1..Len(hs) : hs[i].ticker = ticker
    THEN CHOOSE i \in 1..Len(hs) :
            /\ hs[i].ticker = ticker
            /\ \A j \in 1..(i - 1) : hs[j].ticker # ticker
    ELSE 0

Cost(price, shares) == price * shares

\* if (shares <= 0) return
SharesGuard(shares) == shares <= 0

\* variant: refuses a BUY that costs exactly the balance
CashGuard_OrEqual(cash, cost) == cash <= cost

\* if (portfolio.cash < cost) return alert("Insufficient cash!")
CashGuard(cash, cost) == cash < cost

\* variant: checks only that the ticker is held
PositionGuard_NoShareCheck(hs, index, shares) == index = 0

\* if (index < 0 || newHoldings[index].shares < shares) return alert(...)
PositionGuard(hs, index, shares) ==
    IF index = 0 THEN TRUE ELSE hs[index].shares < shares

\* variant: the plain mean of the old average and the new price
MergedAvgCost_Unweighted(h, price, shares) ==
    Quot(h.avgCost[1] + price * h.avgCost[2], 2 * h.avgCost[2])

\* totalCost / totalShares of the merged position
MergedAvgCost(h, price, shares) ==
    LET totalShares == h.shares + shares
        totalCostNum == TimesNum(h.shares, h.avgCost) + shares * price * h.avgCost[2]
    IN  Quot(totalCostNum, h.avgCost[2] * totalShares)

\* variant: the merged position keeps the price it was marked at
MergedHolding_StalePrice(h, price, shares) ==
    [h EXCEPT !.shares = h.shares + shares,
              !.avgCost = MergedAvgCost(h, price, shares)]

MergedHolding(h, price, shares) ==
    [h EXCEPT !.shares = h.shares + shares,
              !.avgCost = MergedAvgCost(h, price, shares),
              !.currentPrice = price]

\* variant: the position's total cost is recorded as its average cost
NewHolding_TotalCost(ticker, price, shares) ==
    [ticker |-> ticker, shares |-> shares, avgCost |-> Quot(price * shares, 1),
     currentPrice |-> price]

NewHolding(ticker, price, shares) ==
    [ticker |-> ticker, shares |-> shares, avgCost |-> Quot(price, 1),
     currentPrice |-> price]

\* variant: pushes a new holding whether or not the ticker is held
BuyHoldings_AlwaysPush(hs, index, ticker, price, shares) ==
    Append(hs, NewHolding(ticker, price, shares))

BuyHoldings(hs, index, ticker, price, shares) ==
    IF index > 0
    THEN [hs EXCEPT ![index] = MergedHolding(hs[index], price, shares)]
    ELSE Append(hs, NewHolding(ticker, price, shares))

\* newHoldings.splice(index, 1)
Splice(hs, index) ==
    [i \in 1..(Len(hs) - 1) |-> IF i < index THEN hs[i] ELSE hs[i + 1]]

\* variant: never splices the emptied holding out
SellHoldings_KeepZero(hs, index, shares) ==
    [hs EXCEPT ![index].shares = @ - shares]

SellHoldings(hs, index, shares) ==
    LET dec == [hs EXCEPT ![index].shares = @ - shares]
    IN  IF dec[index].shares = 0 THEN Splice(dec, index) ELSE dec

\* prev.history.filter(h => !h.isPrediction)
WithoutPredictions(history) == SelectSeq(history, LAMBDA h : ~IsPrediction(h))

\* variant: the snapshot is valued with the cash before the purchase
BuyUpdate_StaleValue(prev, cost, newHoldings, now) ==
    [cash |-> prev.cash - cost,
     holdings |-> newHoldings,
     history |-> Append(WithoutPredictions(prev.history),
                        ActualSnapshot(now, prev.cash + SumValue(newHoldings)))]

\* variant: the snapshot is appended behind the forecast
BuyUpdate_KeepForecast(prev, cost, newHoldings, now) ==
    [cash |-> prev.cash - cost,
     holdings |-> newHoldings,
     history |-> Append(prev.history,
                        ActualSnapshot(now, (prev.cash - cost) + SumValue(newHoldings)))]

\* the updater passed to setPortfolio by a BUY, applied to prev
BuyUpdate(prev, cost, newHoldings, now) ==
    [cash |-> prev.cash - cost,
     holdings |-> newHoldings,
     history |-> Append(WithoutPredictions(prev.history),
                        ActualSnapshot(now, (prev.cash - cost) + SumValue(newHoldings)))]

\* variant: the proceeds are taken from the balance
SellUpdate_Debit(prev, cost, newHoldings, now) ==
    [cash |-> prev.cash - cost,
     holdings |-> newHoldings,
     history |-> Append(WithoutPredictions(prev.history),
                        ActualSnapshot(now, (prev.cash - cost) + SumValue(newHoldings)))]

\* variant: a SELL appends no snapshot
SellUpdate_NoSnapshot(prev, cost, newHoldings, now) ==
    [cash |-> prev.cash + cost,
     holdings |-> newHoldings,
     history |-> WithoutPredictions(prev.history)]

\* the updater passed to setPortfolio by a SELL, applied to prev
SellUpdate(prev, cost, newHoldings, now) ==
    [cash |-> prev.cash + cost,
     holdings |-> newHoldings,
     history |-> Append(WithoutPredictions(prev.history),
                        ActualSnapshot(now, (prev.cash + cost) + SumValue(newHoldings)))]

NewTransaction(type, ticker, price, shares, now) ==
    [type |-> type, ticker |-> ticker, shares |-> shares, price |-> price,
     timestamp |-> <<"iso", now>>]

\* variant: the record is put at the end of the log
PrependTransaction_AtEnd(tx, txs) == Append(txs, tx)

\* setTransactions([tx, ...transactions])
PrependTransaction(tx, txs) == <<tx>> \o txs

InsufficientCash == "Insufficient cash!"
NotEnoughShares == "Not enough shares!"
NoAlert == ""

\* One call of executeTrade.  `rendered` and `renderedTx` are the portfolio and
\* transactions values the handler closes over, `prev` the state the updater
\* receives.  exit names the statement the call returned from.
executeTrade(rendered, renderedTx, prev, prevTx, type, ticker, price, shares, now) ==
    LET cost == Cost(price, shares)
        index == findIndex(rendered.holdings, ticker)
        refused(where, msg) ==
            [exit |-> where, alert |-> msg, portfolio |-> prev, transactions |-> prevTx]
        tx == NewTransaction(type, ticker, price, shares, now)
    IN  IF SharesGuard(shares) THEN refused("shares", NoAlert)
        ELSE IF type = "BUY"
        THEN IF CashGuard(rendered.cash, cost) THEN refused("cash", InsufficientCash)
             ELSE [exit |-> "done", alert |-> NoAlert,
                   portfolio |-> BuyUpdate(prev, cost,
                       BuyHoldings(rendered.holdings, index, ticker, price, shares), now),
                   transactions |-> PrependTransaction(tx, renderedTx)]
        ELSE IF PositionGuard(rendered.holdings, index, shares)
             THEN refused("position", NotEnoughShares)
             ELSE [exit |-> "done", alert |-> NoAlert,
                   portfolio |-> SellUpdate(prev, cost,
                       SellHoldings(rendered.holdings, index, shares), now),
                   transactions |-> PrependTransaction(tx, renderedTx)]

\* --------------------------------------------------------- fetchPrediction
\* variant: the points are folded in without the flag
TagPredictions_Unflagged(predictions) ==
    [i \in 1..Len(predictions) |->
        [timestamp |-> predictions[i].timestamp,
         totalValue |-> predictions[i].totalValue]]

\* result.predictions.map(p => ({ ...p, isPrediction: true }))
TagPredictions(predictions) ==
    [i \in 1..Len(predictions) |->
        [timestamp |-> predictions[i].timestamp,
         totalValue |-> predictions[i].totalValue,
         isPrediction |-> TRUE]]

\* variant: a forecast already in the history is kept
FoldPredictions_FirstWins(prev, predictions) ==
    IF WithoutPredictions(prev.history) # prev.history
    THEN prev
    ELSE [prev EXCEPT !.history = prev.history \o predictions]

\* variant: the forecast replaces the whole history
FoldPredictions_Overwrite(prev, predictions) ==
    [prev EXCEPT !.history = predictions]

\* variant: the new points are appended behind the old forecast
FoldPredictions_Append(prev, predictions) ==
    [prev EXCEPT !.history = prev.history \o predictions]

\* the updater passed to setPortfolio by fetchPrediction, applied to prev
FoldPredictions(prev, predictions) ==
    [prev EXCEPT !.history = WithoutPredictions(prev.history) \o predictions]

\* what predictPortfolioValue returns when JSON.parse throws
UnparsablePayload == <<>>

\* ------------------------------------------------------------- persistence
Absent == <<>>
Item(v) == <<v>>

EmptyStore == [trader_user |-> Absent, portfolio |-> Absent, transactions |-> Absent]

\* variant: the log is not written with the portfolio
PersistenceEffect_PortfolioOnly(u, p, txs, st) ==
    IF u # NoUser
    THEN [st EXCEPT !.trader_user = Item(u), !.portfolio = Item(p)]
    ELSE st

\* the effect on [user, portfolio, transactions]
PersistenceEffect(u, p, txs, st) ==
    IF u # NoUser
    THEN [trader_user |-> Item(u), portfolio |-> Item(p), transactions |-> Item(txs)]
    ELSE st

\* the portfolio a first login creates
InitialPortfolio(now) ==
    [cash |-> INITIAL_BALANCE, holdings |-> <<>>,
     history |-> <<ActualSnapshot(now, INITIAL_BALANCE)>>]

\* useState initialiser of portfolio with no user stored
LoggedOutPortfolio == [cash |-> INITIAL_BALANCE, holdings |-> <<>>, history |-> <<>>]

\* ---------------------------------------------------------------- advisory
\* a list state (marketIndices, discoveredStocks): an array, or undefined
ListOf(items) == [defined |-> TRUE, items |-> items]
UndefinedList == [defined |-> FALSE, items |-> <<>>]

NoTicker == "null"

\* the useState initialisers of lines 33-47
InitialAdvisory ==
    [marketLoading |-> FALSE, loading |-> FALSE, analyzing |-> NoTicker,
     isSearching |-> FALSE,
     marketIndices |-> ListOf(<<>>), discoveredStocks |-> ListOf(<<>>),
     searchResults |-> <<>>, activeAnalysis |-> <<>>,
     pending |-> <<>>, crashed |-> FALSE]

\* a call of the service that has not returned yet
Await(adv, kind, arg) ==
    [adv EXCEPT !.pending = Append(@, [kind |-> kind, arg |-> arg])]

\* fetchMarketData up to its await
fetchMarketData(adv) == Await([adv EXCEPT !.marketLoading = TRUE], "market", NoTicker)

\* fetchDiscovery up to its await
fetchDiscovery(adv) == Await([adv EXCEPT !.loading = TRUE], "discovery", NoTicker)

\* the effect on [user]: a logged-in user starts both requests
UserEffect(u, adv) ==
    IF u # NoUser THEN fetchDiscovery(fetchMarketData(adv)) ELSE adv

\* what the render of the logged-in view dereferences
RenderThrows(u, adv) ==
    /\ u # NoUser
    /\ \/ ~adv.marketIndices.defined
       \/ adv.searchResults # <<>> /\ ~adv.searchResults[1].wellformed
       \/ adv.activeAnalysis # <<>> /\ ~adv.activeAnalysis[1].wellformed
       \/ adv.activeAnalysis = <<>> /\ ~adv.discoveredStocks.defined

\* the render after a commit: an exception in it unmounts the application
Render(u, adv) == [adv EXCEPT !.crashed = @ \/ RenderThrows(u, adv)]

Mounted == ~advisory.crashed

\* a Stock and an AnalysisResponse as the gateway's schema declares them, and
\* the value read from a payload that lacks the field
StockOf(ticker, price) == [wellformed |-> TRUE, ticker |-> ticker, price |-> price]
AnalysisOf(ticker, price) == [wellformed |-> TRUE, ticker |-> ticker, price |-> price]
UndefinedItem == [wellformed |-> FALSE, ticker |-> NoTicker, price |-> 0]

\* how a request ends: a payload of the declared schema, a text JSON.parse
\* rejects, a JSON document without the required fields, a rejected request
Outcomes == {"ok", "unparsable", "schemaless", "rejected"}

\* the ticker the discovery payload lists
DiscoveredTicker == "AAA"
\* the tickers typed into the search box
SearchQueries == {"BBB"}
\* the amounts typed into a card's buy box
Amounts == {4, 10, 60, 120}

\* ------------------------------------------------------------------- ghost
NoCall == [type |-> "", ticker |-> "", price |-> 0, shares |-> 0]

Ran(op, exit, alert, call, pre, preTx, preClosed) ==
    [op |-> op, exit |-> exit, alert |-> alert, call |-> call, pre |-> pre,
     preTx |-> preTx, preClosed |-> preClosed]

NoFolds == [count |-> 0, predictions |-> <<>>]

SharesOf(hs, ticker) ==
    IF findIndex(hs, ticker) = 0 THEN 0 ELSE hs[findIndex(hs, ticker)].shares

\* -------------------------------------------------------------------- Init
Init ==
    /\ user = NoUser
    /\ portfolio = LoggedOutPortfolio
    /\ transactions = <<>>
    /\ predicting = FALSE
    /\ inflight = <<>>
    /\ store = EmptyStore
    /\ clock = 0
    /\ issued = 0
    /\ last = Ran("init", "done", NoAlert, NoCall, LoggedOutPortfolio, <<>>, {})
    /\ closed = {}
    /\ folds = NoFolds
    /\ advisory = InitialAdvisory

\* ----------------------------------------------------------------- actions
handleLogin(now) ==
    /\ Mounted
    /\ user = NoUser
    /\ user' = MockUserId
    /\ advisory' = Render(MockUserId, UserEffect(MockUserId, advisory))
    /\ LET fresh == store.portfolio = Absent
           p == IF fresh THEN InitialPortfolio(now) ELSE portfolio
           st == IF fresh THEN [store EXCEPT !.portfolio = Item(p)] ELSE store
       IN  /\ portfolio' = p
           /\ clock' = IF fresh THEN now ELSE clock
           /\ store' = PersistenceEffect(MockUserId, p, transactions, st)
           /\ folds' = IF fresh THEN NoFolds ELSE folds
    /\ last' = Ran("login", "done", NoAlert, NoCall, portfolio, transactions, closed)
    /\ UNCHANGED <<transactions, predicting, inflight, issued, closed>>

handleLogout ==
    /\ Mounted
    /\ user # NoUser
    /\ user' = NoUser
    /\ store' = [store EXCEPT !.trader_user = Absent]
    /\ last' = Ran("logout", "done", NoAlert, NoCall, portfolio, transactions, closed)
    /\ UNCHANGED <<portfolio, transactions, predicting, inflight, clock, issued,
                   closed, folds, advisory>>

\* the rendered portfolio after a call made from it: an accepted SELL has
\* decremented the holding in place (newHoldings shares its objects with
\* portfolio.holdings), the splice was on the copy
RenderedAfter(rendered, r, type, ticker, shares) ==
    LET index == findIndex(rendered.holdings, ticker)
    IN  IF type = "SELL" /\ r.exit = "done"
        THEN [rendered EXCEPT !.holdings[index].shares = @ - shares]
        ELSE rendered

\* executeTrade called twice before the component renders again: both calls
\* close over the same portfolio and transactions, the updaters are applied
\* in turn, the later setTransactions wins
ExecuteTradeTwice(c1, c2, now1, now2) ==
    /\ Mounted
    /\ user # NoUser
    /\ \E r1 \in {executeTrade(portfolio, transactions, portfolio, transactions,
                               c1.type, c1.ticker, c1.price, c1.shares, now1)} :
       \E r2 \in {executeTrade(RenderedAfter(portfolio, r1, c1.type, c1.ticker, c1.shares),
                               transactions, r1.portfolio, r1.transactions,
                               c2.type, c2.ticker, c2.price, c2.shares, now2)} :
          /\ portfolio' = r2.portfolio
          /\ transactions' = r2.transactions
          /\ clock' = IF r2.exit = "done" THEN now2
                       ELSE IF r1.exit = "done" THEN now1 ELSE clock
          /\ store' = PersistenceEffect(user, r2.portfolio, r2.transactions, store)
          /\ last' = Ran("twice", <<r1.exit, r2.exit>>, r2.alert,
                         [first |-> c1, second |-> c2, now1 |-> now1, now2 |-> now2],
                         portfolio, transactions, closed)
          /\ advisory' = IF r1.exit = "done" \/ r2.exit = "done"
                         THEN Render(user, [advisory EXCEPT !.activeAnalysis = <<>>])
                         ELSE advisory
    /\ UNCHANGED <<user, predicting, inflight, issued, closed, folds>>

\* the page is loaded again: the useState initialisers read localStorage, the
\* requests of the page that went away are never answered, the effect runs
Reload(now) ==
    LET u == IF store.trader_user = Absent THEN NoUser ELSE store.trader_user[1]
        fresh == u # NoUser /\ store.portfolio = Absent
        p == IF u = NoUser THEN LoggedOutPortfolio
             ELSE IF store.portfolio # Absent THEN store.portfolio[1]
             ELSE InitialPortfolio(now)
        txs == IF u = NoUser \/ store.transactions = Absent THEN <<>>
               ELSE store.transactions[1]
    IN  /\ user' = u
        /\ advisory' = Render(u, UserEffect(u, InitialAdvisory))
        /\ portfolio' = p
        /\ transactions' = txs
        /\ predicting' = FALSE
        /\ inflight' = <<>>
        /\ clock' = IF fresh THEN now ELSE clock
        /\ store' = PersistenceEffect(u, p, txs, store)
        /\ last' = Ran("reload", "done", NoAlert, NoCall, portfolio, transactions, closed)
        /\ UNCHANGED <<issued, closed, folds>>

\* a click that calls executeTrade; the component re-renders and the
\* persistence effect runs before the next event is handled
ExecuteTrade(type, ticker, price, shares, now) ==
    /\ Mounted
    /\ user # NoUser
    /\ \E r \in {executeTrade(portfolio, transactions, portfolio, transactions,
                              type, ticker, price, shares, now)} :
       LET accepted == r.exit = "done"
       IN  /\ portfolio' = r.portfolio
           /\ transactions' = r.transactions
           /\ clock' = IF accepted THEN now ELSE clock
           /\ store' = PersistenceEffect(user, r.portfolio, r.transactions, store)
           /\ last' = Ran("trade", r.exit, r.alert,
                        [type |-> type, ticker |-> ticker, price |-> price,
                         shares |-> shares], portfolio, transactions, closed)
           /\ closed' = IF ~accepted THEN closed
                        ELSE IF type = "BUY" THEN closed \ {ticker}
                        ELSE IF shares = SharesOf(portfolio.holdings, ticker)
                        THEN closed \cup {ticker}
                        ELSE closed
           /\ folds' = IF accepted THEN NoFolds ELSE folds
           \* setActiveAnalysis(null)
           /\ advisory' = IF accepted
                          THEN Render(user, [advisory EXCEPT !.activeAnalysis = <<>>])
                          ELSE advisory
    /\ UNCHANGED <<user, predicting, inflight, issued>>

\* fetchPrediction up to its await: the request goes out.  id is the promise
\* the call awaits: requests are numbered in the order they are issued
fetchPrediction ==
    /\ Mounted
    /\ user # NoUser
    /\ predicting' = TRUE
    /\ issued' = issued + 1
    /\ inflight' = Append(inflight, [id |-> issued + 1,
                                     holdings |-> portfolio.holdings,
                                     cash |-> portfolio.cash])
    /\ last' = Ran("predict", "await", NoAlert, NoCall, portfolio, transactions, closed)
    /\ UNCHANGED <<user, portfolio, transactions, store, clock, closed, folds,
                   advisory>>

\* the AI Projection button, disabled while predicting
AIProjectionClick == ~predicting /\ fetchPrediction

\* the pending requests without the k-th
Settle(requests, k) ==
    [i \in 1..(Len(requests) - 1) |-> IF i < k THEN requests[i] ELSE requests[i + 1]]

\* the rest of fetchPrediction once the service has returned `predictions`
\* to the k-th pending request
FoldResponse(k, op, predictions) ==
    /\ Mounted
    /\ k \in 1..Len(inflight)
    /\ inflight' = Settle(inflight, k)
    /\ predicting' = FALSE
    /\ LET tagged == TagPredictions(predictions)
           p == FoldPredictions(portfolio, tagged)
       IN  /\ portfolio' = p
           /\ store' = PersistenceEffect(user, p, transactions, store)
           /\ folds' = [count |-> folds.count + 1, predictions |-> predictions]
    /\ last' = Ran(op, "done", NoAlert, NoCall, portfolio, transactions, closed)
    /\ UNCHANGED <<user, transactions, clock, issued, closed, advisory>>

PredictionReturned(k, predictions) == FoldResponse(k, "fold", predictions)

\* JSON.parse of the response throws inside predictPortfolioValue
PredictionUnparsable(k) == FoldResponse(k, "unparsable", UnparsablePayload)

\* the request rejects, or the payload has no predictions list: the catch branch
PredictionFailed(k) ==
    /\ Mounted
    /\ k \in 1..Len(inflight)
    /\ inflight' = Settle(inflight, k)
    /\ predicting' = FALSE
    /\ last' = Ran("failed", "catch", NoAlert, NoCall, portfolio, transactions, closed)
    /\ UNCHANGED <<user, portfolio, transactions, store, clock, issued, closed, folds,
                   advisory>>

\* the tickers of the cards on screen: the search result, and the discoveries
\* when no analysis covers them
CardTickers(adv) ==
    {adv.searchResults[i].ticker : i \in 1..Len(adv.searchResults)}
        \cup (IF adv.activeAnalysis = <<>>
              THEN {adv.discoveredStocks.items[i].ticker :
                        i \in 1..Len(adv.discoveredStocks.items)}
              ELSE {})

AdvisoryRan(op, exit, alert) ==
    Ran(op, exit, alert, NoCall, portfolio, transactions, closed)

\* the Deep Dive button of a card (disabled while that ticker is analyzed):
\* handleAnalyze up to its await
handleAnalyze(ticker) ==
    /\ Mounted
    /\ user # NoUser
    /\ ticker \in CardTickers(advisory)
    /\ advisory.analyzing # ticker
    /\ advisory' = Await([advisory EXCEPT !.analyzing = ticker], "analysis", ticker)
    /\ last' = AdvisoryRan("analysis", "await", NoAlert)
    /\ UNCHANGED <<user, portfolio, transactions, predicting, inflight, store, clock,
                   issued, closed, folds>>

\* the search button (disabled while searching): handleSearchStock up to its
\* await, for a query that is not blank
handleSearchStock(query) ==
    /\ Mounted
    /\ user # NoUser
    /\ ~advisory.isSearching
    /\ advisory' = Await([advisory EXCEPT !.isSearching = TRUE], "search", query)
    /\ last' = AdvisoryRan("search", "await", NoAlert)
    /\ UNCHANGED <<user, portfolio, transactions, predicting, inflight, store, clock,
                   issued, closed, folds>>

\* what the service call returns, or that it throws, for each kind of response
ServiceReturn(kind, arg, outcome, price) ==
    LET returns(v) == [threw |-> FALSE, value |-> v]
        throws == [threw |-> TRUE, value |-> <<>>]
    IN  IF outcome = "rejected" THEN throws
        ELSE IF kind = "market"
        THEN returns(IF outcome = "ok" THEN ListOf(<<"S&P 500">>)
                     ELSE IF outcome = "unparsable" THEN ListOf(<<>>)
                     ELSE UndefinedList)
        ELSE IF kind = "discovery"
        THEN returns(IF outcome = "ok" THEN ListOf(<<StockOf(DiscoveredTicker, price)>>)
                     ELSE IF outcome = "unparsable" THEN ListOf(<<>>)
                     ELSE UndefinedList)
        ELSE IF outcome = "unparsable" THEN throws
        ELSE IF kind = "search"
        THEN returns(IF outcome = "ok" THEN StockOf(arg, price) ELSE UndefinedItem)
        ELSE returns(IF outcome = "ok" THEN AnalysisOf(arg, price) ELSE UndefinedItem)

AnalysisFailed == "Analysis failed. Please try again later."
SearchFailed == "Ticker not found or search failed."

\* the rest of the handler that awaits the k-th pending call: try, catch, finally
AdvisoryResponse(k, outcome, price) ==
    /\ Mounted
    /\ k \in 1..Len(advisory.pending)
    /\ LET call == advisory.pending[k]
           r == ServiceReturn(call.kind, call.arg, outcome, price)
           rest == [advisory EXCEPT !.pending = Settle(@, k)]
           set == IF call.kind = "market"
                  THEN [rest EXCEPT !.marketLoading = FALSE,
                                    !.marketIndices = IF r.threw THEN @ ELSE r.value]
                  ELSE IF call.kind = "discovery"
                  THEN [rest EXCEPT !.loading = FALSE,
                                    !.discoveredStocks = IF r.threw THEN @ ELSE r.value]
                  ELSE IF call.kind = "analysis"
                  THEN [rest EXCEPT !.analyzing = NoTicker,
                                    !.activeAnalysis = IF r.threw THEN @ ELSE <<r.value>>]
                  ELSE [rest EXCEPT !.isSearching = FALSE,
                                    !.searchResults = IF r.threw THEN @ ELSE <<r.value>>]
           alert == IF ~r.threw THEN NoAlert
                    ELSE IF call.kind = "analysis" THEN AnalysisFailed
                    ELSE IF call.kind = "search" THEN SearchFailed
                    ELSE NoAlert
       IN  /\ advisory' = Render(user, set)
           /\ last' = AdvisoryRan(call.kind, outcome, alert)
    /\ UNCHANGED <<user, portfolio, transactions, predicting, inflight, store, clock,
                   issued, closed, folds>>

\* the card of a ticker on screen, <<>> when there is none
CardOf(adv, ticker) ==
    LET found == SelectSeq(adv.searchResults, LAMBDA c : c.ticker = ticker)
        listed == IF adv.activeAnalysis = <<>>
                  THEN SelectSeq(adv.discoveredStocks.items, LAMBDA c : c.ticker = ticker)
                  ELSE <<>>
    IN  IF found # <<>> THEN <<found[1]>>
        ELSE IF listed # <<>> THEN <<listed[1]>>
        ELSE <<>>

\* Math.floor(a / b) for b # 0
Floor(a, b) == IF b > 0 THEN a \div b ELSE (0 - a) \div (0 - b)

\* StockCard: sharesToBuy and isAffordable
sharesToBuy(amount, price) == Floor(amount, price)

isAffordable(cash, amount, price) ==
    amount > 0 /\ cash >= amount /\ sharesToBuy(amount, price) > 0

\* the Buy button of a card, disabled unless isAffordable
QuickBuyClick(ticker, amount, now) ==
    /\ Mounted
    /\ CardOf(advisory, ticker) # <<>>
    /\ LET stock == CardOf(advisory, ticker)[1]
       IN  /\ isAffordable(portfolio.cash, amount, stock.price)
           /\ ExecuteTrade("BUY", stock.ticker, stock.price,
                           sharesToBuy(amount, stock.price), now)

\* the Max Buy button of the analysis panel, disabled when cash < currentPrice
MaxBuyClick(now) ==
    /\ Mounted
    /\ advisory.activeAnalysis # <<>>
    /\ LET a == advisory.activeAnalysis[1]
       IN  /\ ~(portfolio.cash < a.price)
           /\ ExecuteTrade("BUY", a.ticker, a.price, Floor(portfolio.cash, a.price), now)

\* the Exit All button of the analysis panel, shown when the ticker is held
ExitAllClick(now) ==
    /\ Mounted
    /\ advisory.activeAnalysis # <<>>
    /\ LET a == advisory.activeAnalysis[1]
       IN  /\ findIndex(portfolio.holdings, a.ticker) > 0
           /\ ExecuteTrade("SELL", a.ticker, a.price,
                           SharesOf(portfolio.holdings, a.ticker), now)

\* new Date(): every handler that reads the clock runs one tick after the last
Clock == {clock + 1}

Next ==
    \/ \E now \in Clock : handleLogin(now)
    \/ /\ Len(transactions) < MaxTrades
       /\ \E type \in TradeTypes, ticker \in Tickers, shares \in ShareCounts,
             now \in Clock :
               \E price \in Quotes(ticker) :
                   ExecuteTrade(type, ticker, price, shares, now)
    \/ issued < MaxRequests /\ AIProjectionClick
    \/ \E k \in 1..Len(inflight) :
          \E predictions \in Forecasts(inflight[k].id) :
              PredictionReturned(k, predictions)
    \/ \E k \in 1..Len(inflight) : PredictionUnparsable(k)
    \/ \E k \in 1..Len(inflight) : PredictionFailed(k)

\* one logged-in session, most of it trading
Spec == Init /\ [][Next]_vars

ForecastNext ==
    \/ \E now \in Clock : handleLogin(now)
    \/ /\ Len(transactions) < MaxForecastTrades
       /\ \E type \in TradeTypes, ticker \in Tickers, shares \in ShareCounts,
             now \in Clock :
               \E price \in Quotes(ticker) :
                   ExecuteTrade(type, ticker, price, shares, now)
    \/ issued < MaxForecastRequests /\ AIProjectionClick
    \/ \E k \in 1..Len(inflight) :
          \E predictions \in Forecasts(inflight[k].id) :
              PredictionReturned(k, predictions)
    \/ \E k \in 1..Len(inflight) : PredictionUnparsable(k)
    \/ \E k \in 1..Len(inflight) : PredictionFailed(k)

\* one logged-in session, most of it forecasting
ForecastSpec == Init /\ [][ForecastNext]_vars

\* the session with logging out, reloading the page and logging in again
SessionNext ==
    \/ /\ Len(advisory.pending) < MaxSessionPending
       /\ \E now \in Clock : handleLogin(now)
    \/ handleLogout
    \/ \E now \in Clock : Reload(now)
    \/ /\ clock < MaxSessionClock
       /\ \E type \in TradeTypes, ticker \in Tickers, shares \in ShareCounts,
             now \in Clock :
               \E price \in Quotes(ticker) :
                   ExecuteTrade(type, ticker, price, shares, now)
    \/ issued < MaxSessionRequests /\ AIProjectionClick
    \/ \E k \in 1..Len(inflight) :
          \E predictions \in Forecasts(inflight[k].id) :
              PredictionReturned(k, predictions)
    \/ \E k \in 1..Len(inflight) : PredictionUnparsable(k)
    \/ \E k \in 1..Len(inflight) : PredictionFailed(k)

SessionSpec == Init /\ [][SessionNext]_vars

\* fetchPrediction called whatever the button shows, so that requests overlap
\* and their responses arrive in any order
ConcurrentNext ==
    \/ \E now \in Clock : handleLogin(now)
    \/ /\ Len(transactions) < MaxConcurrentTrades
       /\ \E type \in TradeTypes, ticker \in Tickers, shares \in ShareCounts,
             now \in Clock :
               \E price \in Quotes(ticker) :
                   ExecuteTrade(type, ticker, price, shares, now)
    \/ issued < MaxConcurrentRequests /\ fetchPrediction
    \/ \E k \in 1..Len(inflight) :
          \E predictions \in Forecasts(inflight[k].id) :
              PredictionReturned(k, predictions)
    \/ \E k \in 1..Len(inflight) : PredictionUnparsable(k)
    \/ \E k \in 1..Len(inflight) : PredictionFailed(k)

ConcurrentSpec == Init /\ [][ConcurrentNext]_vars

\* executeTrade called with any numbers: a gateway price below zero, a share
\* count of zero or less
RawNext ==
    \/ \E now \in Clock : handleLogin(now)
    \/ /\ Len(transactions) < MaxRawTrades
       /\ \E type \in TradeTypes, ticker \in Tickers, price \in RawPrices,
             shares \in RawShareCounts, now \in Clock :
               ExecuteTrade(type, ticker, price, shares, now)

RawSpec == Init /\ [][RawNext]_vars

\* the ticker a pending call is about
TickerOf(call) == IF call.arg = NoTicker THEN DiscoveredTicker ELSE call.arg

LowQuote(ticker) == CHOOSE p \in Quotes(ticker) : \A q \in Quotes(ticker) : p <= q

\* the session with its advisory requests answered
AdvisoryNext ==
    \/ \E now \in Clock : handleLogin(now)
    \/ /\ Len(advisory.pending) < MaxAdvisoryPending
       /\ \E ticker \in Tickers : handleAnalyze(ticker)
    \/ /\ Len(advisory.pending) < MaxAdvisoryPending
       /\ \E query \in SearchQueries : handleSearchStock(query)
    \/ \E k \in 1..Len(advisory.pending), outcome \in Outcomes :
          AdvisoryResponse(k, outcome, LowQuote(TickerOf(advisory.pending[k])))
    \/ /\ Len(transactions) < MaxAdvisoryTrades
       /\ \E ticker \in Tickers, amount \in Amounts, now \in Clock :
             QuickBuyClick(ticker, amount, now)
    \/ /\ Len(transactions) < MaxAdvisoryTrades
       /\ \E now \in Clock : MaxBuyClick(now)
    \/ issued < MaxAdvisoryRequests /\ AIProjectionClick
    \/ \E k \in 1..Len(inflight) :
          \E predictions \in Forecasts(inflight[k].id) :
              PredictionReturned(k, predictions)
    \/ \E k \in 1..Len(inflight) : PredictionUnparsable(k)
    \/ \E k \in 1..Len(inflight) : PredictionFailed(k)

AdvisorySpec == Init /\ [][AdvisoryNext]_vars

Calls ==
    {[type |-> type, ticker |-> ticker, price |-> price, shares |-> shares] :
        type \in TradeTypes, ticker \in Tickers, price \in {5, 10}, shares \in {5, 10}}

\* trades, and pairs of trades issued from the same rendered snapshot
TwiceNext ==
    \/ \E now \in Clock : handleLogin(now)
    \/ /\ clock < MaxTwiceClock
       /\ \E c \in Calls, now \in Clock :
             /\ c.price \in Quotes(c.ticker)
             /\ ExecuteTrade(c.type, c.ticker, c.price, c.shares, now)
    \/ /\ clock < MaxTwiceClock
       /\ \E c1, c2 \in Calls :
             /\ c1.price \in Quotes(c1.ticker)
             /\ c2.price \in Quotes(c2.ticker)
             /\ ExecuteTradeTwice(c1, c2, clock + 1, clock + 2)

TwiceSpec == Init /\ [][TwiceNext]_vars

\* the shortcuts of the cards and of the analysis panel, on the prices the
\* gateway returns
ShortcutNext ==
    \/ \E now \in Clock : handleLogin(now)
    \/ /\ Len(advisory.pending) < MaxShortcutPending
       /\ \E ticker \in Tickers : handleAnalyze(ticker)
    \/ /\ Len(advisory.pending) < MaxShortcutPending
       /\ \E query \in SearchQueries : handleSearchStock(query)
    \/ \E k \in 1..Len(advisory.pending), price \in RawPrices :
          AdvisoryResponse(k, "ok", price)
    \/ /\ Len(transactions) < MaxShortcutTrades
       /\ \E ticker \in Tickers, amount \in Amounts, now \in Clock :
             QuickBuyClick(ticker, amount, now)
    \/ /\ Len(transactions) < MaxShortcutTrades
       /\ \E now \in Clock : MaxBuyClick(now)
    \/ /\ Len(transactions) < MaxShortcutTrades
       /\ \E now \in Clock : ExitAllClick(now)

ShortcutSpec == Init /\ [][ShortcutNext]_vars

\* ================================================================== claims
TradeRan == last.op = "trade"

AcceptedTrade == TradeRan /\ last.exit = "done"

RefusedTrade == TradeRan /\ last.exit # "done"

PreHeld(ticker) ==
    \E i \in 1..Len(last.pre.holdings) : last.pre.holdings[i].ticker = ticker

PreShares(ticker) ==
    LET i == CHOOSE i \in 1..Len(last.pre.holdings) :
                 last.pre.holdings[i].ticker = ticker
    IN  last.pre.holdings[i].shares

NowHeld(ticker) ==
    \E i \in 1..Len(portfolio.holdings) : portfolio.holdings[i].ticker = ticker

ActualCount(history) ==
    Cardinality({i \in 1..Len(history) : ~IsPrediction(history[i])})

\* the k-th snapshot of the history that is not a prediction
NthActual(history, k) ==
    LET i == CHOOSE i \in 1..Len(history) :
                 /\ ~IsPrediction(history[i])
                 /\ Cardinality({j \in 1..i : ~IsPrediction(history[j])}) = k
    IN  history[i]

LedgerUnchanged ==
    /\ portfolio.cash = last.pre.cash
    /\ portfolio.holdings = last.pre.holdings
    /\ portfolio.history = last.pre.history
    /\ transactions = last.preTx

\* the three rejections of the trade contract, on the state before the call
ContractRejects(c) ==
    \/ c.type = "BUY" /\ c.price * c.shares > last.pre.cash
    \/ c.type = "SELL" /\ ~PreHeld(c.ticker)
    \/ c.type = "SELL" /\ PreHeld(c.ticker) /\ c.shares > PreShares(c.ticker)

\* C1: every call of executeTrade is all-or-nothing.  A call that meets none
\* of the three rejections (BUY costing more than cash, SELL of a ticker not
\* held, SELL of more than held) updates cash and holdings and adds one
\* snapshot to the history and one record to the log; a call that meets one
\* leaves cash, holdings, history and the log exactly as they were.
C1_AllOrNothing ==
    TradeRan =>
        LET c == last.call
        IN  IF c.shares > 0 /\ ~ContractRejects(c)
            THEN /\ portfolio.cash = IF c.type = "BUY"
                                     THEN last.pre.cash - c.price * c.shares
                                     ELSE last.pre.cash + c.price * c.shares
                 /\ portfolio.holdings # last.pre.holdings
                 /\ ActualCount(portfolio.history) = ActualCount(last.pre.history) + 1
                 /\ Len(transactions) = Len(last.preTx) + 1
            ELSE LedgerUnchanged

\* a BUY was refused for lack of cash after earlier trades had been accepted
C1_Witness ==
    /\ RefusedTrade
    /\ last.call.type = "BUY"
    /\ last.call.price * last.call.shares > portfolio.cash
    /\ Len(transactions) >= 2

\* sum of shares * currentPrice, by index
RECURSIVE MarkedValue(_, _)
MarkedValue(hs, n) ==
    IF n = 0 THEN 0 ELSE hs[n].shares * hs[n].currentPrice + MarkedValue(hs, n - 1)

\* C2: conservation.  The snapshot a successful trade appends records
\* totalValue = post-trade cash + sum over the post-trade holdings of
\* shares * currentPrice, the value totalValue computes on the result.
C2_Conservation ==
    AcceptedTrade =>
        LET h == portfolio.history
        IN  /\ h # <<>>
            /\ ~IsPrediction(h[Len(h)])
            /\ h[Len(h)].totalValue =
                   portfolio.cash + MarkedValue(portfolio.holdings, Len(portfolio.holdings))
            /\ h[Len(h)].totalValue = totalValue(portfolio)

\* a third trade in a row, two positions open, marked away from the balance
C2_Witness ==
    /\ AcceptedTrade
    /\ Len(transactions) = 3
    /\ Len(portfolio.holdings) = 2
    /\ totalValue(portfolio) # INITIAL_BALANCE

\* C3: weighted-average cost.  A successful BUY of s shares at price p of a
\* ticker held with (oldShares, oldAvgCost) leaves shares = oldShares + s,
\* an avgCost with (oldShares + s) * avgCost = oldShares * oldAvgCost + s * p
\* and currentPrice = p; of a ticker not held it adds a holding with shares s,
\* avgCost p, currentPrice p.  10 shares at 5 plus 10 at 7 give 20 at 6.
C3_WeightedAverage ==
    (AcceptedTrade /\ last.call.type = "BUY") =>
        LET c == last.call
            i == findIndex(last.pre.holdings, c.ticker)
            j == findIndex(portfolio.holdings, c.ticker)
            new == portfolio.holdings[j]
            old == last.pre.holdings[i]
        IN  /\ j > 0
            /\ new.currentPrice = c.price
            /\ IF i > 0
               THEN /\ new.shares = old.shares + c.shares
                    \* the equation, multiplied by the two denominators
                    /\ (old.shares + c.shares) * new.avgCost[1] * old.avgCost[2] =
                          (old.shares * old.avgCost[1] + c.shares * c.price * old.avgCost[2])
                              * new.avgCost[2]
                    /\ (old.shares = 10 /\ old.avgCost = <<5, 1>> /\ c.shares = 10
                            /\ c.price = 7)
                          => (new.shares = 20 /\ new.avgCost = <<6, 1>>)
               ELSE /\ new.shares = c.shares
                    /\ new.avgCost[1] = c.price * new.avgCost[2]

\* 10 shares held at avgCost 5, 10 more bought at 7: 20 shares at avgCost 6
C3_Witness ==
    /\ AcceptedTrade
    /\ last.call = [type |-> "BUY", ticker |-> "AAA", price |-> 7, shares |-> 10]
    /\ PreHeld("AAA")
    /\ PreShares("AAA") = 10
    /\ last.pre.holdings[findIndex(last.pre.holdings, "AAA")].avgCost = <<5, 1>>
    /\ portfolio.holdings[findIndex(portfolio.holdings, "AAA")].shares = 20
    /\ portfolio.holdings[findIndex(portfolio.holdings, "AAA")].avgCost = <<6, 1>>

NoPositionCall(l) ==
    /\ l.op = "trade" /\ l.call.type = "SELL"
    /\ findIndex(l.pre.holdings, l.call.ticker) = 0

InsufficientSharesCall(l) ==
    /\ l.op = "trade" /\ l.call.type = "SELL"
    /\ findIndex(l.pre.holdings, l.call.ticker) > 0
    /\ l.call.shares > SharesOf(l.pre.holdings, l.call.ticker)

C7_HoldingsWellFormed ==
    LET hs == portfolio.holdings
    IN  /\ \A i, j \in 1..Len(hs) : hs[i].ticker = hs[j].ticker => i = j
        /\ \A i \in 1..Len(hs) : hs[i].shares > 0

\* a position bought twice and then sold in part
C7_Witness ==
    /\ AcceptedTrade /\ last.call.type = "SELL"
    /\ NowHeld(last.call.ticker)
    /\ \E i, j \in 1..Len(transactions) :
          /\ i # j
          /\ transactions[i].type = "BUY" /\ transactions[j].type = "BUY"
          /\ transactions[i].ticker = last.call.ticker
          /\ transactions[j].ticker = last.call.ticker

EndsInForecast(history) == history # <<>> /\ IsPrediction(history[Len(history)])

\* C8: a trade invalidates the forecast.  When the history ends in a
\* prediction suffix, a successful trade leaves exactly the earlier actual
\* snapshots, unchanged and in order, then one new actual snapshot, and no
\* prediction snapshot.
C8_TradeInvalidatesForecast ==
    (AcceptedTrade /\ EndsInForecast(last.pre.history)) =>
        LET old == last.pre.history
            new == portfolio.history
            n == ActualCount(old)
        IN  /\ Len(new) = n + 1
            /\ \A i \in 1..Len(new) : ~IsPrediction(new[i])
            /\ \A k \in 1..n : new[k] = NthActual(old, k)

\* a trade was accepted while the chart showed a seven-point forecast
C8_Witness ==
    /\ AcceptedTrade
    /\ EndsInForecast(last.pre.history)
    /\ Len(last.pre.history) = ActualCount(last.pre.history) + PredictionDays
    /\ ActualCount(last.pre.history) >= 2
    /\ Len(portfolio.history) = ActualCount(last.pre.history) + 1

\* the i-th point of the forecast, as it stands in the history behind n actuals
IsPoint(history, n, i, point) ==
    /\ IsPrediction(history[n + i])
    /\ history[n + i].timestamp = point.timestamp
    /\ history[n + i].totalValue = point.totalValue

\* C9: predictions replace, they do not append.  After k >= 1 completed folds
\* with no trade in between, the history is the actual snapshots followed by
\* the predictions of the last fold only; after two folds of 7 points its
\* length is actualCount + 7.
C9_ReplaceNotAppend ==
    folds.count >= 1 =>
        LET h == portfolio.history
            n == ActualCount(h)
            given == folds.predictions
        IN  /\ Len(h) = n + Len(given)
            /\ \A i \in 1..Len(given) : IsPoint(h, n, i, given[i])
            /\ (folds.count >= 2 /\ Len(given) = PredictionDays)
                  => Len(h) = n + PredictionDays

\* a second seven-point forecast was folded over a first one, after a trade
C9_Witness ==
    /\ folds.count = 2
    /\ last.op = "fold"
    /\ Len(folds.predictions) = PredictionDays
    /\ Len(last.pre.history) = ActualCount(last.pre.history) + PredictionDays
    /\ last.pre.history # portfolio.history
    /\ Len(portfolio.history) = ActualCount(portfolio.history) + PredictionDays
    /\ ActualCount(portfolio.history) >= 2

\* C10: history shape.  In every state the history is a run of snapshots not
\* flagged isPrediction followed by a run of snapshots flagged isPrediction;
\* folding a response leaves the actual run as it was and makes the
\* prediction run exactly the points supplied, in the order received.
C10_HistoryShape ==
    LET h == portfolio.history
        n == ActualCount(h)
    IN  /\ \A i, j \in 1..Len(h) : (i < j /\ IsPrediction(h[i])) => IsPrediction(h[j])
        /\ last.op \in {"fold", "unparsable"} =>
              /\ n = ActualCount(last.pre.history)
              /\ \A k \in 1..n : h[k] = NthActual(last.pre.history, k)
              /\ Len(h) - n = Len(folds.predictions)
              /\ \A i \in 1..(Len(h) - n) : IsPoint(h, n, i, folds.predictions[i])

\* a forecast was folded into a history of three actuals and an older forecast
C10_Witness ==
    /\ last.op = "fold"
    /\ EndsInForecast(last.pre.history)
    /\ EndsInForecast(portfolio.history)
    /\ ActualCount(portfolio.history) = 3
    /\ last.pre.history # portfolio.history

FailedResponse == last.op \in {"unparsable", "failed"}

HasPrediction(history) == \E i \in 1..Len(history) : IsPrediction(history[i])

\* C11: a failed prediction request clears the forecast.  Whenever a
\* prediction request fails (the payload cannot be parsed, or the request
\* itself errors), the history afterwards holds no prediction snapshot.
C11_FailureClearsForecast ==
    FailedResponse => ~HasPrediction(portfolio.history)

\* the stored ledger is what the user of the next state sees, and is still stored
ShowsStoredLedger ==
    /\ portfolio'.cash = store.portfolio[1].cash
    /\ portfolio'.holdings = store.portfolio[1].holdings
    /\ WithoutPredictions(portfolio'.history) =
           WithoutPredictions(store.portfolio[1].history)
    /\ transactions' = store.transactions[1]
    /\ store'.portfolio = store.portfolio
    /\ store'.transactions = store.transactions

\* C12: the ledger survives reloads and re-login.  Whenever a reload or a
\* login leaves a user logged in and that user's ledger was stored, the cash,
\* holdings, actual history and transaction log shown are the stored ones,
\* and the store keeps them: no fresh 100-cash portfolio or empty log
\* replaces a stored ledger, in memory or in the store.
C12_LedgerSurvives ==
    [][(/\ last'.op \in {"login", "reload"}
        /\ user' # NoUser
        /\ store.portfolio # Absent
        /\ store.transactions # Absent) => ShowsStoredLedger]_vars

\* C13: write after every mutation.  While a user is logged in, once a
\* handler's updates are committed and the persistence effect has run, the
\* store entries trader_user, portfolio_<id> and transactions_<id> hold the
\* user and the complete in-memory portfolio and transaction log.
C13_WriteAfterEveryMutation ==
    user # NoUser =>
        /\ store.trader_user = Item(user)
        /\ store.portfolio = Item(portfolio)
        /\ store.transactions = Item(transactions)

\* a second trade was accepted and both the portfolio and the log were stored
C13_Witness ==
    /\ AcceptedTrade
    /\ Len(transactions) = 2
    /\ store.portfolio # Absent /\ store.portfolio[1].cash = portfolio.cash
    /\ store.portfolio[1].cash # last.pre.cash
    /\ store.transactions # Absent /\ Len(store.transactions[1]) = 2

FreshLedger(p) ==
    /\ p.cash = INITIAL_BALANCE
    /\ p.holdings = <<>>
    /\ Len(p.history) = 1
    /\ ~IsPrediction(p.history[1])
    /\ p.history[1].totalValue = INITIAL_BALANCE

StartsWithActual(history) == history # <<>> /\ ~IsPrediction(history[1])

\* the first login: a user who becomes logged in with no stored portfolio
\* gets the fresh ledger
FirstLoginIsFresh ==
    [][(last'.op = "login" /\ store.portfolio = Absent)
          => FreshLedger(portfolio')]_vars

\* C14: initial state.  Whenever a user becomes logged in with no stored
\* portfolio, the portfolio is cash 100, no holdings and a history of exactly
\* one actual snapshot of value 100; and in every state with a logged-in user
\* the history starts with at least one actual snapshot.
C14_InitialState ==
    /\ FirstLoginIsFresh
    /\ [](user # NoUser => StartsWithActual(portfolio.history))

IsRecordOf(tx, c) ==
    /\ tx.type = c.type
    /\ tx.ticker = c.ticker
    /\ tx.shares = c.shares
    /\ tx.price = c.price

RequestPending == predicting /\ inflight # <<>>

\* C16: advisory calls do not block or touch the ledger.  With a prediction
\* request pending a trade is decided and applied exactly by the trade
\* contract (cash, position, one actual snapshot, one record, or nothing at
\* all), and the request stays pending; folding a response in leaves cash,
\* holdings, the log and every actual snapshot as they were, those of a
\* trade made while the request was pending included.
C16_AdvisoryLeavesLedger ==
    /\ (TradeRan /\ RequestPending) =>
          LET c == last.call
          IN  IF ~ContractRejects(c)
              THEN /\ last.exit = "done"
                   /\ portfolio.cash = IF c.type = "BUY"
                                       THEN last.pre.cash - c.price * c.shares
                                       ELSE last.pre.cash + c.price * c.shares
                   /\ SharesOf(portfolio.holdings, c.ticker) =
                         IF c.type = "BUY"
                         THEN SharesOf(last.pre.holdings, c.ticker) + c.shares
                         ELSE SharesOf(last.pre.holdings, c.ticker) - c.shares
                   /\ Len(portfolio.history) = ActualCount(last.pre.history) + 1
                   /\ Len(transactions) = Len(last.preTx) + 1
              ELSE last.exit # "done" /\ LedgerUnchanged
    /\ last.op \in {"fold", "unparsable"} =>
          /\ portfolio.cash = last.pre.cash
          /\ portfolio.holdings = last.pre.holdings
          /\ transactions = last.preTx
          /\ WithoutPredictions(portfolio.history) =
                 WithoutPredictions(last.pre.history)

\* a trade was accepted while the request, made from another balance, was
\* still pending
C16_Witness ==
    /\ AcceptedTrade
    /\ RequestPending
    /\ inflight[1].cash = last.pre.cash
    /\ inflight[1].cash # portfolio.cash
    /\ Len(transactions) >= 2

\* the prediction snapshots of a history, in order
PredictionSuffix(history) == SelectSeq(history, IsPrediction)

\* the values of a payload's points, in order
PointsOf(predictions) ==
    [i \in 1..Len(predictions) |->
        <<predictions[i].timestamp, predictions[i].totalValue>>]

\* C17: last write wins on the prediction suffix.  When a response is folded
\* over the forecast of another response, the prediction suffix is exactly
\* the points of the response that arrived later, in whichever order the two
\* requests were issued, and no point of the earlier arrival remains.
C17_LastWriteWins ==
    (last.op \in {"fold", "unparsable"} /\ HasPrediction(last.pre.history)) =>
        LET suffix == PredictionSuffix(portfolio.history)
            earlier == PredictionSuffix(last.pre.history)
        IN  /\ PointsOf(suffix) = PointsOf(folds.predictions)
            /\ \A i \in 1..Len(suffix), j \in 1..Len(earlier) :
                  suffix[i].totalValue # earlier[j].totalValue

\* two requests were pending at once; the second one issued was answered
\* first, and the answer to the first one issued has now replaced it
C17_Witness ==
    /\ last.op = "fold"
    /\ inflight = <<>>
    /\ issued = 2
    /\ PointsOf(PredictionSuffix(last.pre.history)) = PointsOf(Forecast(2, PredictionDays))
    /\ PointsOf(PredictionSuffix(portfolio.history)) = PointsOf(Forecast(1, PredictionDays))

\* the chronological order of two time-of-day strings
TimeLeq(s, t) == s[2] <= t[2]

\* C18: monotonic history.  In every state the timestamps of the actual
\* snapshots are in non-decreasing order, whatever the clock times of the
\* trades, midnight between two trades included.
C18_MonotonicHistory ==
    LET actual == WithoutPredictions(portfolio.history)
    IN  \A i, j \in 1..Len(actual) :
            i < j => TimeLeq(actual[i].timestamp, actual[j].timestamp)

\* C19: preconditions are enforced.  A call of executeTrade with shares <= 0
\* or with price < 0 changes none of cash, holdings, history and the log.
C19_PreconditionsEnforced ==
    (TradeRan /\ (last.call.shares <= 0 \/ last.call.price < 0)) => LedgerUnchanged

\* the half of C19 the handler does enforce: shares <= 0 changes nothing
SharesPreconditionEnforced ==
    (TradeRan /\ last.call.shares <= 0) => (last.exit = "shares" /\ LedgerUnchanged)

\* the total values of the snapshots of a history, in order
ValuesOf(history) == [i \in 1..Len(history) |-> history[i].totalValue]

IsCall(c, type, price, shares) ==
    c.type = type /\ c.price = price /\ c.shares = shares

\* the first trade of a fresh ledger was BUY 5 at 10
AfterScenarioBuy ==
    /\ AcceptedTrade
    /\ IsCall(last.call, "BUY", 10, 5)
    /\ last.pre.cash = INITIAL_BALANCE /\ last.pre.holdings = <<>>
    /\ ValuesOf(last.pre.history) = <<INITIAL_BALANCE>>

\* the trade after that BUY was SELL 5 at 12 of the same ticker
AfterScenarioSell ==
    /\ AcceptedTrade
    /\ IsCall(last.call, "SELL", 12, 5)
    /\ Len(last.preTx) = 1
    /\ IsCall(last.preTx[1], "BUY", 10, 5)
    /\ last.preTx[1].ticker = last.call.ticker
    /\ ValuesOf(last.pre.history) = <<INITIAL_BALANCE, INITIAL_BALANCE>>

\* C20: the end-to-end scenario.  From cash 100 and history [{t0, 100}],
\* BUY 5 at 10 gives cash 50, one holding of 5 shares at avgCost 10 and
\* history [{t0, 100}, {t1, 100}]; SELL 5 at 12 then gives cash 110, no
\* holdings, a last snapshot of 110 and a profit and loss of +10.
C20_Scenario ==
    /\ AfterScenarioBuy =>
          /\ portfolio.cash = 50
          /\ Len(portfolio.holdings) = 1
          /\ portfolio.holdings[1].ticker = last.call.ticker
          /\ portfolio.holdings[1].shares = 5
          /\ portfolio.holdings[1].avgCost = <<10, 1>>
          /\ ValuesOf(portfolio.history) = <<100, 100>>
          /\ portfolio.history[1] = last.pre.history[1]
    /\ AfterScenarioSell =>
          /\ last.pre.cash = 50
          /\ portfolio.cash = 110
          /\ portfolio.holdings = <<>>
          /\ ValuesOf(portfolio.history) = <<100, 100, 110>>
          /\ totalValue(portfolio) = 110
          /\ pnl(portfolio) = 10

\* the scenario was played to its end
C20_Witness ==
    /\ AfterScenarioSell
    /\ portfolio.cash = 110
    /\ portfolio.holdings = <<>>
    /\ Len(transactions) = 2
    /\ Len(portfolio.history) = 3

AdvisoryKinds == {"market", "discovery", "search", "analysis"}

\* the ledger is as the last handler found it, the forecast aside
LedgerKept ==
    /\ portfolio.cash = last.pre.cash
    /\ portfolio.holdings = last.pre.holdings
    /\ WithoutPredictions(portfolio.history) = WithoutPredictions(last.pre.history)
    /\ transactions = last.preTx

\* the failure policy for the responses whose exit is among `exits`
FailurePolicy(exits) ==
    /\ (last.op = "market" /\ last.exit \in exits)
          => (advisory.marketIndices = ListOf(<<>>) /\ last.alert = NoAlert)
    /\ (last.op = "discovery" /\ last.exit \in exits)
          => (advisory.discoveredStocks = ListOf(<<>>) /\ last.alert = NoAlert)
    /\ (last.op = "search" /\ last.exit \in exits) => last.alert = SearchFailed
    /\ (last.op = "analysis" /\ last.exit \in exits) => last.alert = AnalysisFailed
    /\ last.op = "unparsable" => ~HasPrediction(portfolio.history)
    /\ ((last.op \in AdvisoryKinds /\ last.exit \in exits) \/ last.op = "unparsable")
          => (LedgerKept /\ Mounted)

\* C21: the gateway failure policy.  When a response is not a well-formed
\* payload (it does not parse, or it parses to a document without the
\* declared fields), discovery yields an empty stock list, market overview
\* an empty index list and prediction an empty prediction list, with no
\* error raised; ticker search and deep analysis raise a failure; in each
\* case cash, holdings, actual history and the log are unchanged and the
\* application goes on accepting operations.
C21_GatewayFailurePolicy == FailurePolicy({"unparsable", "schemaless"})

\* the policy for the responses JSON.parse rejects
ParseFailurePolicy == FailurePolicy({"unparsable"})

\* C22: no stale forecast after a trade.  A forecast that is folded into the
\* history was computed from the cash and holdings the portfolio then has,
\* also when a trade was executed while its request was pending: no forecast
\* requested against the portfolio of before the trade is in the history
\* after it.
C22_NoStaleForecast ==
    [][(last'.op = "fold" /\ Len(inflight) = 1 /\ HasPrediction(portfolio'.history))
          => /\ inflight[1].cash = portfolio'.cash
             /\ inflight[1].holdings = portfolio'.holdings]_vars

\* the two calls of the last handler, executed one after the other
InTurn ==
    LET c1 == last.call.first
        c2 == last.call.second
        s1 == executeTrade(last.pre, last.preTx, last.pre, last.preTx,
                           c1.type, c1.ticker, c1.price, c1.shares, last.call.now1)
    IN  executeTrade(s1.portfolio, s1.transactions, s1.portfolio, s1.transactions,
                     c2.type, c2.ticker, c2.price, c2.shares,
                     IF s1.exit = "done" THEN last.call.now2 ELSE last.call.now1)

\* C23: trades issued from the same rendered snapshot are not lost.  When
\* executeTrade is invoked twice before the component renders again, the
\* resulting cash, holdings, history values and log are those of executing
\* the two trades one after the other: both records are in the log and the
\* holdings reflect both trades.
C23_TwiceAsInTurn ==
    last.op = "twice" =>
        /\ portfolio.cash = InTurn.portfolio.cash
        /\ portfolio.holdings = InTurn.portfolio.holdings
        /\ ValuesOf(portfolio.history) = ValuesOf(InTurn.portfolio.history)
        /\ Len(transactions) = Len(InTurn.transactions)
        /\ \A i \in 1..Len(transactions) :
              IsRecordOf(transactions[i], InTurn.transactions[i])


\* the i-th most recent actual snapshot of the history
RecentActual(history, i) == NthActual(history, ActualCount(history) + 1 - i)

\* C24: log and history stay in step.  For a portfolio created fresh by
\* login, in every state the log has as many records as the history has
\* actual snapshots, less the opening one, and the i-th most recent record
\* belongs to the i-th most recent actual snapshot: both were written by the
\* same trade, at the same instant, and the pairs before it are kept.
C24_LogAndHistoryInStep ==
    user # NoUser =>
        /\ Len(transactions) = ActualCount(portfolio.history) - 1
        /\ \A i \in 1..Len(transactions) :
              RecentActual(portfolio.history, i).timestamp
                  = LocaleTimeString(transactions[i].timestamp[2])
        /\ AcceptedTrade =>
              /\ IsRecordOf(transactions[1], last.call)
              /\ RecentActual(portfolio.history, 1).totalValue = totalValue(portfolio)
              /\ \A i \in 1..Len(last.preTx) :
                    /\ transactions[i + 1] = last.preTx[i]
                    /\ RecentActual(portfolio.history, i + 1)
                           = RecentActual(last.pre.history, i)

\* three records behind the opening snapshot, a forecast standing behind them
C24_Witness ==
    /\ Len(transactions) = 3
    /\ ActualCount(portfolio.history) = 4
    /\ EndsInForecast(portfolio.history)
    /\ transactions[1].type = "SELL"


\* the holdings other than the one of ticker, in order
OtherHoldings(hs, ticker) == SelectSeq(hs, LAMBDA h : h.ticker # ticker)

\* C25: value change of a trade.  A successful BUY of a ticker not held, and
\* a successful SELL at the holding's currentPrice, leave the total value
\* (cash + sum of shares * currentPrice) unchanged; a successful BUY of s
\* shares at p into a holding of oldShares marked at oldCurrentPrice changes
\* it by oldShares * (p - oldCurrentPrice); a successful SELL of s shares at
\* p changes it by s * (p - currentPrice) and leaves the currentPrice and
\* avgCost of the remaining shares, and all other holdings, unchanged.
C25_ValueChange ==
    AcceptedTrade =>
        LET c == last.call
            i == findIndex(last.pre.holdings, c.ticker)
            j == findIndex(portfolio.holdings, c.ticker)
            old == last.pre.holdings[i]
            change == totalValue(portfolio) - totalValue(last.pre)
        IN  /\ OtherHoldings(portfolio.holdings, c.ticker)
                   = OtherHoldings(last.pre.holdings, c.ticker)
            /\ IF c.type = "BUY"
               THEN IF i = 0 THEN change = 0
                    ELSE change = old.shares * (c.price - old.currentPrice)
               ELSE /\ i > 0
                    /\ change = c.shares * (c.price - old.currentPrice)
                    /\ c.price = old.currentPrice => change = 0
                    /\ j > 0 => /\ portfolio.holdings[j].currentPrice = old.currentPrice
                                /\ portfolio.holdings[j].avgCost = old.avgCost

\* a partial SELL above the mark, after a BUY that had re-marked the position
C25_Witness ==
    /\ AcceptedTrade /\ last.call.type = "SELL"
    /\ NowHeld(last.call.ticker)
    /\ last.call.price > last.pre.holdings[findIndex(last.pre.holdings,
                                                     last.call.ticker)].currentPrice
    /\ totalValue(portfolio) > totalValue(last.pre)
    /\ Len(transactions) = 3
    /\ transactions[2].type = "BUY" /\ transactions[3].type = "BUY"
    /\ transactions[2].price # transactions[3].price
    /\ transactions[2].ticker = transactions[3].ticker


\* C26: enabled buy shortcuts never bounce.  The BUY issued by an enabled
\* Quick Buy (shares = floor(amount / price)) or Max Buy (shares =
\* floor(cash / currentPrice)) has shares >= 1 and price * shares <= cash and
\* is accepted; after Max Buy the remaining cash is less than currentPrice.
C26_ShortcutsNeverBounce ==
    (TradeRan /\ last.call.type = "BUY") =>
        /\ last.call.shares >= 1
        /\ last.call.price * last.call.shares <= last.pre.cash
        /\ last.exit = "done"
        /\ last.call.shares = Floor(last.pre.cash, last.call.price)
              => portfolio.cash < last.call.price


\* a response to a pending advisory call of one kind, or to a pending
\* prediction request
AdvisoryResponseTo(kind) ==
    \E k \in 1..Len(advisory.pending), outcome \in Outcomes :
        /\ advisory.pending[k].kind = kind
        /\ AdvisoryResponse(k, outcome, LowQuote(TickerOf(advisory.pending[k])))

PredictionResponses ==
    \/ \E k \in 1..Len(inflight) :
          \E predictions \in Forecasts(inflight[k].id) :
              PredictionReturned(k, predictions)
    \/ \E k \in 1..Len(inflight) : PredictionUnparsable(k)
    \/ \E k \in 1..Len(inflight) : PredictionFailed(k)

\* AdvisorySpec with every pending request answered in the end
FairAdvisorySpec ==
    /\ AdvisorySpec
    /\ WF_vars(AdvisoryResponseTo("market"))
    /\ WF_vars(AdvisoryResponseTo("discovery"))
    /\ WF_vars(AdvisoryResponseTo("analysis"))
    /\ WF_vars(AdvisoryResponseTo("search"))
    /\ WF_vars(PredictionResponses)

\* the handler whose await has just completed has cleared its flag
CompletionClearsFlag ==
    /\ (last.op = "market" /\ last.exit \in Outcomes) => ~advisory.marketLoading
    /\ (last.op = "discovery" /\ last.exit \in Outcomes) => ~advisory.loading
    /\ (last.op = "analysis" /\ last.exit \in Outcomes) => advisory.analyzing = NoTicker
    /\ (last.op = "search" /\ last.exit \in Outcomes) => ~advisory.isSearching
    /\ last.op \in {"fold", "unparsable", "failed"} => ~predicting

\* the AI Projection button is on screen and not disabled
AIProjectionEnabled == Mounted /\ user # NoUser /\ ~predicting

\* C27: busy flags always clear.  Every advisory request that completes, by
\* success or by failure, leaves its busy flag cleared; with every response
\* arriving in the end each of marketLoading, loading, analyzing, isSearching
\* and predicting is eventually cleared again, and the AI Projection control,
\* disabled while predicting, becomes enabled again.
C27_BusyFlagsClear ==
    /\ []CompletionClearsFlag
    /\ advisory.marketLoading ~> ~advisory.marketLoading
    /\ advisory.loading ~> ~advisory.loading
    /\ (advisory.analyzing # NoTicker) ~> (advisory.analyzing = NoTicker)
    /\ advisory.isSearching ~> ~advisory.isSearching
    /\ predicting ~> AIProjectionEnabled

====
